---- MODULE Spec2Model ----
(***************************************************************************)
(* Model of the image-commit pipeline of the docker personality            *)
(* (Image.Commit, getImagec, setLayerConfig, downloadDiff,                 *)
(* compressDiffToTmpFile).                                                 *)
(*                                                                         *)
(* Every Commit call is a process that walks through the statements of     *)
(* Image.Commit; the file system, the layer / image / repository caches,   *)
(* the export streams and the event log are shared.  Collaborators whose   *)
(* code is not part of the sources (caches, image config creation, blob    *)
(* write, event service) are modelled at their boundary: a fallible call   *)
(* is a nondeterministic choice between success and failure.               *)
(***************************************************************************)
EXTENDS Integers, Sequences, FiniteSets, TLC

(* ----------------------------- bounds --------------------------------- *)

\* number of Commit calls that can be in progress
NumCalls == 2

\* the parent-chain walk is cut off when the list has this many elements
\* (the loop of the code has no bound of its own)
MaxLayers == 3

\* largest number of entries of an exported archive
MaxEntries == 2

\* largest logical size of one archive entry
MaxEntrySize == 1

\* largest number of entries of an Env list handed to merge
MaxEnv == 2

\* number of containers in the portlayer's container cache
MaxContainers == 2

\* largest number of times retry.Do runs the operation for one container
MaxAttempts == 2

Calls == 1 .. NumCalls

(* --------------------------- identifiers ------------------------------ *)

\* imagec.ScratchLayerID, the sentinel parent of a root layer
ScratchLayerID == "scratch"

\* layers that can be in the layer cache before any commit: L2 -> L1 -> scratch
BaseLayers == {"L1", "L2"}

BaseParent(id) == IF id = "L2" THEN "L1" ELSE ScratchLayerID

\* the i-th value stringid.GenerateRandomID can return
IdName(i) == CASE i = 1 -> "R1" [] i = 2 -> "R2" [] i = 3 -> "R3" [] OTHER -> "R4"

\* values stringid.GenerateRandomID can return, one for every call
RandomIDs == {IdName(i) : i \in Calls}

\* the i-th name ioutil.TempFile can create
TmpName(i) == CASE i = 1 -> "tmp1" [] i = 2 -> "tmp2" [] i = 3 -> "tmp3" [] OTHER -> "tmp4"

\* names ioutil.TempFile can create, one for every call
TmpNames == {TmpName(i) : i \in Calls}

\* the container cache: name -> (ContainerID, LayerID, ImageID).  "nx" is not
\* in the cache.  "I2" is an image ID that is no key of the layer cache.
ContainerNames == {"c0", "c1", "c2", "c3", "nx"}

CachedContainers == {"c0", "c1", "c2", "c3"}

\* cache.ContainerCache().GetContainer(name), for a cached name
VicContainer(name) ==
    CASE name = "c0" -> [ContainerID |-> "c0", LayerID |-> ScratchLayerID, ImageID |-> ScratchLayerID]
      [] name = "c1" -> [ContainerID |-> "c1", LayerID |-> "L1", ImageID |-> "L1"]
      [] name = "c2" -> [ContainerID |-> "c2", LayerID |-> "L2", ImageID |-> "L2"]
      [] OTHER       -> [ContainerID |-> "c3", LayerID |-> "L2", ImageID |-> "I2"]

\* backend.ContainerCommitConfig: Repo and Tag ("" is the unset string)
Repos == {"", "repo", "Bad Repo"}

Tags == {"", "v1"}

(* ------------------------- exported archives -------------------------- *)

\* an export stream: the logical sizes of the tar entries, and whether the
\* stream carries the end-of-archive blocks of a tar writer
EntrySizes == 0 .. MaxEntrySize

RECURSIVE SeqsUpTo(_, _)
SeqsUpTo(S, n) ==
    IF n = 0 THEN {<<>>}
    ELSE LET shorter == SeqsUpTo(S, n - 1)
         IN  shorter \cup {Append(s, x) : s \in {t \in shorter : Len(t) = n - 1}, x \in S}

Archives == [entries : SeqsUpTo(EntrySizes, MaxEntries), trailer : BOOLEAN]

\* sha256 over a byte sequence, idealised as injective
SHA256(bytes) == <<"sha256", bytes>>

\* dockerLayer.DigestSHA256EmptyTar: the digest of the archive a tar writer
\* produces for no entries (end-of-archive blocks only)
DigestSHA256EmptyTar == SHA256([entries |-> <<>>, trailer |-> TRUE])

\* the bytes gzip produces for an input; complete is FALSE when the gzip
\* footer did not reach the file
Gzip(bytes, complete) == [gz |-> bytes, complete |-> complete]

RECURSIVE SumSizes(_)
\* layerSize += tarHeader.Size over the headers of the archive
SumSizes(entries) ==
    IF entries = <<>> THEN 0 ELSE Head(entries) + SumSizes(Tail(entries))

NoDiffIDOverride(layerSize, computed) == computed

\* diffID of the layer record: overridden for a zero layer size
FinalDiffID(layerSize, computed) ==
    IF layerSize = 0 THEN DigestSHA256EmptyTar ELSE computed

(* --------------------------- layer records ---------------------------- *)

\* *imagec.ImageWithMeta.  isNil is the nil pointer; hasImage tells whether
\* the Image part (ID, Parent, Store) has been assigned; unset strings are ""
NilLayer ==
    [isNil |-> TRUE, hasImage |-> FALSE, ID |-> "", Parent |-> "", Store |-> "",
     DiffID |-> <<>>, BlobSum |-> <<>>, Size |-> 0, Meta |-> <<>>]

\* a layer of the cache that was there before the commit
BaseLayer(id) ==
    [isNil |-> FALSE, hasImage |-> TRUE, ID |-> id, Parent |-> BaseParent(id),
     Store |-> "host",
     DiffID |-> SHA256([entries |-> <<1>>, trailer |-> TRUE]),
     BlobSum |-> SHA256(Gzip([entries |-> <<1>>, trailer |-> TRUE], TRUE)),
     Size |-> 1, Meta |-> <<>>]

\* reference.Named: nil, or a name with an optional tag
NilRef == [isNil |-> TRUE, name |-> "", tag |-> ""]

\* reference.WithName fails for an invalid repository name
ValidRepo(repo) == repo # "Bad Repo"

\* Reference.String(), as the pair (name, tag); the empty string is <<>>
RefString(ref) == IF ref.isNil THEN <<>> ELSE <<ref.name, ref.tag>>

(* ------------------------------ files --------------------------------- *)

\* keys of the blob / sidecar directories and of the layer cache
LayerKeys == BaseLayers \cup RandomIDs \cup {""}

\* a file: content is <<>> for an empty file, else <<the gzip stream>> (blob)
\* or <<the metadata>> (sidecar)
NoFile == [exists |-> FALSE, content |-> <<>>]

File(content) == [exists |-> TRUE, content |-> content]

(* ------------------------ container configurations -------------------- *)

\* a Go slice of strings (strslice.StrSlice): nil, or a sequence
NilSlice == [isNil |-> TRUE, elems |-> <<>>]

Slice(s) == [isNil |-> FALSE, elems |-> s]

\* *container.HealthConfig: nil, or Test, Interval, Timeout and Retries
NilHealthcheck ==
    [isNil |-> TRUE, Test |-> <<>>, Interval |-> 0, Timeout |-> 0, Retries |-> 0]

\* map[string]string: nil, or a function from its keys to their values
NilLabels == [isNil |-> TRUE, m |-> [l \in {} |-> ""]]

LabelMap(m) == [isNil |-> FALSE, m |-> m]

\* the fields of containertypes.Config that merge reads or writes.
\* ExposedPorts and Volumes are maps to struct{}, hence sets of keys; a
\* string of Env is the sequence of its characters.
ZeroConfig ==
    [User |-> "", ExposedPorts |-> {}, Env |-> <<>>, Labels |-> NilLabels,
     Entrypoint |-> NilSlice, Cmd |-> NilSlice, ArgsEscaped |-> FALSE,
     Healthcheck |-> NilHealthcheck, WorkingDir |-> "", Volumes |-> {},
     StopSignal |-> ""]

\* values of runtime.GOOS
GOOS == {"linux", "windows"}

\* Env strings: "A=1", "A=2", "a=1", "B=3", and "A" (no '=')
EnvStrings ==
    {<<"A", "=", "1">>, <<"A", "=", "2">>, <<"a", "=", "1">>, <<"B", "=", "3">>, <<"A">>}

EnvLists == SeqsUpTo(EnvStrings, MaxEnv)

\* Entrypoint and Cmd values: nil, empty, one element
Entrypoints == {NilSlice, Slice(<<>>), Slice(<<"sh">>), Slice(<<"bash">>)}

Cmds == {NilSlice, Slice(<<>>), Slice(<<"-c">>), Slice(<<"ls">>)}

PortKeys == {"80/tcp", "443/tcp"}

VolumeKeys == {"/data", "/log"}

LabelKeys == {"k1", "k2"}

LabelValues == {"v1", "v2"}

LabelMaps ==
    {NilLabels} \cup UNION {{LabelMap(m) : m \in [d -> LabelValues]} : d \in SUBSET LabelKeys}

Tests == {<<>>, <<"NONE">>, <<"CMD", "true">>}

\* time.Duration and int values, 0 being the unset value
Durations == {0, 1, 2}

Healthchecks ==
    {NilHealthcheck} \cup
    [isNil : {FALSE}, Test : Tests, Interval : Durations, Timeout : Durations,
     Retries : Durations]

Strings == {"", "x", "y"}

\* the configurations handed to merge: families that vary the fields of one
\* rule of merge and leave the others at their zero value
ConfigFamilies ==
    { {[ZeroConfig EXCEPT !.Entrypoint = e, !.Cmd = cmd, !.ArgsEscaped = a] :
          e \in Entrypoints, cmd \in Cmds, a \in BOOLEAN},
      {[ZeroConfig EXCEPT !.Env = env] : env \in EnvLists},
      {[ZeroConfig EXCEPT !.ExposedPorts = p, !.Volumes = v, !.Labels = l] :
          p \in SUBSET PortKeys, v \in SUBSET VolumeKeys, l \in LabelMaps},
      {[ZeroConfig EXCEPT !.Healthcheck = h] : h \in Healthchecks},
      {[ZeroConfig EXCEPT !.User = u, !.WorkingDir = w, !.StopSignal = s] :
          u \in Strings, w \in Strings, s \in Strings} }

(* ----------------------------- state ---------------------------------- *)

VARIABLES
    pc,            \* pc[c]: the statement of Image.Commit call c is at
    loc,           \* loc[c]: the arguments and local variables of call c
    log,           \* log[c]: the side effects call c has performed, in order
    tmpFiles,      \* temp files on disk: name -> file
    blobFiles,     \* <dest>/<id>/<id>.tar on disk: id -> file
    layerDirs,     \* directories <dest>/<id> on disk
    sidecarFiles,  \* <dest>/<id>/<id>.json on disk: id -> file
    layerCache,    \* in-memory index of the layer cache: id -> record
    layerCommitted,\* ids the layer cache has committed
    layerSaved,    \* ids of the durable layer cache
    imageCache,    \* in-memory index of the image cache (image IDs)
    imageSaved,    \* image IDs of the durable image cache
    repoCache,     \* repository cache: set of <<reference, image ID>>
    events,        \* audit events logged by the event service
    streams,       \* streams[c]: state of the export stream of call c
    userArg,       \* merge: the user configuration as it was handed in
    userConf,      \* merge: *userConf, mutated in place
    imageConf,     \* merge: *imageConf
    goos,          \* merge: runtime.GOOS
    mergePc,       \* merge: "call" before the call, "returned" after it
    initPc,        \* portlayer.Init: the statement it is at
    initErr,       \* portlayer.Init: the error it returned
    containerState,\* exec.Containers: container ID -> state
    containers,    \* TakeCareOfSerialPorts: the list of running containers
    idx,           \* TakeCareOfSerialPorts: the loop variable i (from 1)
    opPc,          \* TakeCareOfSerialPorts: position in the loop body
    cur,           \* the calls the running attempt of operation has made
    attempts,      \* container ID -> the attempts of operation, in order
    lastErr,       \* the result of the last attempt of operation
    portLog        \* the error lines logged by TakeCareOfSerialPorts

mergeVars == <<userArg, userConf, imageConf, goos, mergePc>>

portVars == <<initPc, initErr, containerState, containers, idx, opPc, cur, attempts,
              lastErr, portLog>>

\* the state of the operations a Commit call does not touch
outside == <<mergeVars, portVars>>

\* the state of the Commit calls
commitVars == <<pc, loc, log, tmpFiles, blobFiles, layerDirs, sidecarFiles, layerCache,
                layerCommitted, layerSaved, imageCache, imageSaved, repoCache, events,
                streams>>

vars == <<commitVars, outside>>

files == <<tmpFiles, blobFiles, layerDirs, sidecarFiles>>

caches == <<layerCache, layerCommitted, layerSaved, imageCache, imageSaved, repoCache>>

NoImageID == <<>>

\* an image that was committed and tagged before
OldImageID == <<"old">>

InitLoc ==
    [name |-> "", Repo |-> "", Tag |-> "", archive |-> [entries |-> <<>>, trailer |-> FALSE],
     vc |-> VicContainer("c0"), Running |-> FALSE, Restarting |-> FALSE,
     Reference |-> NilRef,
     tmpLayerFileName |-> "", layerID |-> "", diffIDSum |-> <<>>, gzSum |-> <<>>,
     diffID |-> <<>>, layerSize |-> 0, failedAt |-> "",
     lm |-> NilLayer, newLayer |-> NilLayer, layers |-> <<>>, pl |-> "",
     ImageID |-> NoImageID, imageID |-> NoImageID, err |-> "",
     refName |-> <<>>, blobLayer |-> NilLayer, commitLayer |-> NilLayer,
     persistFailed |-> FALSE, preRepo |-> {}, writeFailed |-> FALSE]

(* ------------------------------ portlayer ----------------------------- *)

\* the i-th container ID of the container cache
ContainerID(i) == CASE i = 1 -> "vm1" [] i = 2 -> "vm2" [] i = 3 -> "vm3" [] OTHER -> "vm4"

\* the containers of exec.Containers, in the order Containers() lists them
AllContainers == [i \in 1 .. MaxContainers |-> ContainerID(i)]

ContainerIDs == {ContainerID(i) : i \in 1 .. MaxContainers}

\* exec.State values that matter: StateRunning and any other
ContainerStates == {"Running", "Stopped"}

\* an error value: nil, or an error that is of type ConcurrentAccessError or
\* not, as returned by the callee (raw) or wrapped by fmt.Errorf
NilErr == [isNil |-> TRUE, wrapped |-> FALSE, concurrent |-> FALSE]

Err(wrapped, concurrent) == [isNil |-> FALSE, wrapped |-> wrapped, concurrent |-> concurrent]

\* the fallible steps of Init before TakeCareOfSerialPorts, in order
InitSteps ==
    <<"GuestInfoSource", "GuestInfoSink", "GetSelf", "VMPathName", "ToURL",
      "store.Init", "exec.Init", "network.Init", "logging.Init">>

\* no call of portlayer.Init is in progress
IdlePort ==
    /\ initPc = "idle"
    /\ initErr = NilErr
    /\ containerState = [id \in ContainerIDs |-> "Stopped"]
    /\ containers = <<>>
    /\ idx = 0
    /\ opPc = "none"
    /\ cur = <<>>
    /\ attempts = [id \in ContainerIDs |-> <<>>]
    /\ lastErr = NilErr
    /\ portLog = <<>>

\* no call of merge is in progress
IdleMerge ==
    /\ userArg = ZeroConfig
    /\ userConf = ZeroConfig
    /\ imageConf = ZeroConfig
    /\ goos = "linux"
    /\ mergePc = "idle"

Init ==
    /\ IdleMerge
    /\ IdlePort
    /\ pc = [c \in Calls |-> "idle"]
    /\ loc = [c \in Calls |-> InitLoc]
    /\ log = [c \in Calls |-> <<>>]
    /\ tmpFiles = [n \in TmpNames |-> NoFile]
    /\ blobFiles = [id \in LayerKeys |-> NoFile]
    /\ layerDirs = {}
    /\ sidecarFiles = [id \in LayerKeys |-> NoFile]
    /\ \E present \in SUBSET BaseLayers :
          /\ layerCache = [id \in LayerKeys |-> IF id \in present THEN BaseLayer(id) ELSE NilLayer]
          /\ layerCommitted = present
          /\ layerSaved = present
    /\ imageCache = {}
    /\ imageSaved = {}
    /\ repoCache = {<<(<<"repo", "v1">>), OldImageID>>}
    /\ events = <<>>
    /\ streams = [c \in Calls |-> "none"]

(* --------------------------- helpers ---------------------------------- *)

Goto(c, label) == pc' = [pc EXCEPT ![c] = label]

Effect(c, e) == log' = [log EXCEPT ![c] = Append(@, e)]

\* return "", err
ReturnError(c, e) ==
    /\ pc' = [pc EXCEPT ![c] = "done"]
    /\ loc' = [loc EXCEPT ![c].err = e, ![c].imageID = NoImageID]

\* the layer cache persists its index when it commits a layer, which can fail
LayerCachePersistOutcomes == BOOLEAN

\* imagec.LayerCache().Get(id): the record, or NilLayer with an error
LayerCacheGet(id) == IF id \in DOMAIN layerCache THEN layerCache[id] ELSE NilLayer

(* ------------------------- Image.Commit ------------------------------- *)

EventBeforePersistence(label) ==
    CASE label = "Walk"                  -> "CreateImageConfig"
      [] label = "CreateImageConfig"     -> "ImageCacheAdd"
      [] label = "ImageCacheAdd"         -> "LogEvent"
      [] label = "LogEvent"              -> "ImageCacheSave"
      [] label = "ImageCacheSave"        -> "UpdateRepositoryCache"
      [] label = "UpdateRepositoryCache" -> "WriteImageBlob"
      [] label = "WriteImageBlob"        -> "LayerCacheCommit"
      [] OTHER                           -> "done"

\* the statement of Image.Commit that follows a statement that succeeded,
\* from the end of the chain walk on
Succ(label) ==
    CASE label = "Walk"                  -> "CreateImageConfig"
      [] label = "CreateImageConfig"     -> "ImageCacheAdd"
      [] label = "ImageCacheAdd"         -> "ImageCacheSave"
      [] label = "ImageCacheSave"        -> "UpdateRepositoryCache"
      [] label = "UpdateRepositoryCache" -> "WriteImageBlob"
      [] label = "WriteImageBlob"        -> "LayerCacheCommit"
      [] label = "LayerCacheCommit"      -> "LogEvent"
      [] OTHER                           -> "done"

\* the call: Commit(name, config)
BeginCommit(c) ==
    /\ pc[c] = "idle"
    /\ \E name \in ContainerNames, repo \in Repos, tag \in Tags :
          loc' = [loc EXCEPT ![c].name = name, ![c].Repo = repo, ![c].Tag = tag,
                             ![c].preRepo = repoCache]
    /\ Goto(c, "GetContainer")
    /\ UNCHANGED <<log, files, caches, events, streams>>
    /\ UNCHANGED outside

\* vc := cache.ContainerCache().GetContainer(name)
GetContainer(c) ==
    /\ pc[c] = "GetContainer"
    /\ IF loc[c].name \in CachedContainers
       THEN /\ loc' = [loc EXCEPT ![c].vc = VicContainer(loc[c].name)]
            /\ Goto(c, "ContainerInspect")
       ELSE ReturnError(c, "NotFound")
    /\ UNCHANGED <<log, files, caches, events, streams>>
    /\ UNCHANGED outside

RejectedRunningOnly(running, restarting) == running

\* container.State.Running || container.State.Restarting
Rejected(running, restarting) == running \/ restarting

\* containerEngine.ContainerInspect, the type assertion and the state check
ContainerInspect(c) ==
    /\ pc[c] = "ContainerInspect"
    /\ \/ ReturnError(c, "InternalServerError")
       \/ \E running \in BOOLEAN, restarting \in BOOLEAN :
             IF Rejected(running, restarting)
             THEN /\ pc' = [pc EXCEPT ![c] = "done"]
                  /\ loc' = [loc EXCEPT ![c].Running = running, ![c].Restarting = restarting,
                                        ![c].err = "Conflict", ![c].imageID = NoImageID]
             ELSE /\ loc' = [loc EXCEPT ![c].Running = running, ![c].Restarting = restarting]
                  /\ Goto(c, "BuildFromConfig")
    /\ UNCHANGED <<log, files, caches, events, streams>>
    /\ UNCHANGED outside

\* dockerfile.BuildFromConfig, then merge (which returns nil)
BuildFromConfig(c) ==
    /\ pc[c] = "BuildFromConfig"
    /\ \/ ReturnError(c, "BuildFromConfig")
       \/ /\ Goto(c, "ArchiveExportReader")
          /\ UNCHANGED loc
    /\ UNCHANGED <<log, files, caches, events, streams>>
    /\ UNCHANGED outside

\* rc, err := containerProxy.ArchiveExportReader(...)
ArchiveExportReader(c) ==
    /\ pc[c] = "ArchiveExportReader"
    /\ Effect(c, "export")
    /\ \/ /\ ReturnError(c, "ExportReader")
          /\ UNCHANGED streams
       \/ /\ \E a \in Archives : loc' = [loc EXCEPT ![c].archive = a]
          /\ streams' = [streams EXCEPT ![c] = "open"]
          /\ Goto(c, "getImagec")
    /\ UNCHANGED <<files, caches, events>>
    /\ UNCHANGED outside

\* the value of imageRef when getImagec builds the options: the named
\* reference is assigned to newTag, imageRef is never assigned
ImageRef(repo, tag) == NilRef

\* ic, err := getImagec(config)
getImagec(c) ==
    /\ pc[c] = "getImagec"
    /\ IF loc[c].Repo # "" /\ ~ValidRepo(loc[c].Repo)
       THEN ReturnError(c, "InvalidReference")
       ELSE /\ loc' = [loc EXCEPT ![c].Reference = ImageRef(loc[c].Repo, loc[c].Tag)]
            /\ Goto(c, "TempFile")
    /\ UNCHANGED <<log, files, caches, events, streams>>
    /\ UNCHANGED outside

(* --------------- downloadDiff / compressDiffToTmpFile ----------------- *)

\* cleanup of compressDiffToTmpFile: os.Remove(out.Name()) if err != nil
CompressCleanupRemoves(err) == err # ""

DeferredKeepsFile(err) == FALSE

\* the deferred function of downloadDiff: os.Remove(tmpLayerFileName) if err != nil
DeferredCleanupRemoves(err) == err # ""

\* downloadDiff returns (nil, err): Commit assigns lm, err and goes on with
\* setLayerConfig (the error is overwritten there, not tested)
DownloadDiffFails(c, step) ==
    /\ loc' = [loc EXCEPT ![c].lm = NilLayer, ![c].failedAt = step, ![c].err = step]
    /\ Goto(c, "setLayerConfig")

\* stringid.GenerateRandomID() returns 32 random bytes: a value no other call
\* has drawn
FreshID(c, id) == \A d \in Calls \ {c} : loc[d].layerID # id

TmpNameAny(n) == TRUE

\* ioutil.TempFile creates the file exclusively: the name is not in use
TmpNameFree(n) == ~tmpFiles[n].exists

\* layerID := stringid.GenerateRandomID(); out, err = ioutil.TempFile("", containerID)
TempFile(c) ==
    /\ pc[c] = "TempFile"
    /\ \E id \in {i \in RandomIDs : FreshID(c, i)} :
         \/ /\ loc' = [loc EXCEPT ![c].layerID = id, ![c].lm = NilLayer,
                                  ![c].failedAt = "TempFile", ![c].err = "TempFile"]
            /\ Goto(c, "setLayerConfig")
            /\ UNCHANGED <<tmpFiles, log>>
         \/ \E n \in TmpNames :
              /\ TmpNameFree(n)
              /\ tmpFiles' = [tmpFiles EXCEPT ![n] = File(<<>>)]
              /\ loc' = [loc EXCEPT ![c].layerID = id, ![c].tmpLayerFileName = n]
              /\ Effect(c, "tmpfile")
              /\ Goto(c, "Copy")
    /\ UNCHANGED <<blobFiles, layerDirs, sidecarFiles, caches, events, streams>>
    /\ UNCHANGED outside

\* layer IDs and temp file names are interchangeable: of the values
\* GenerateRandomID and TempFile can return, call c is given the first one
FirstNames(c) ==
    /\ \E k \in Calls :
          /\ loc'[c].layerID = IdName(k)
          /\ \A i \in 1 .. k - 1 : ~FreshID(c, IdName(i))
    /\ pc'[c] = "Copy" =>
          \E k \in Calls :
             /\ loc'[c].tmpLayerFileName = TmpName(k)
             /\ \A i \in 1 .. k - 1 : ~TmpNameFree(TmpName(i))

\* io.Copy(tarMW, rc), gzWriter.Flush(), cleanup(): the stream is compressed
\* into the temp file while both digests are computed.  An error of io.Copy
\* (a read from rc or a write to the file) is returned.  The results of
\* gzWriter.Flush(), gzWriter.Close() and out.Close() are not tested:
\* complete is FALSE when one of their writes failed, and the function
\* returns the file name and the digests all the same.
\* blobSum.Sum(nil) is read after cleanup() has closed gzWriter and out.
\* compressedMW = io.MultiWriter(out, blobSum) hands bytes to blobSum only
\* after out.Write took them: the footer the file has, the hash has; a
\* failed write leaves both without it; a failed out.Close() can leave the
\* file without bytes that were hashed.
HashedFooter(complete) == IF complete THEN {TRUE} ELSE BOOLEAN

Copy(c) ==
    /\ pc[c] = "Copy"
    /\ LET n == loc[c].tmpLayerFileName
           a == loc[c].archive
       IN  \/ /\ tmpFiles' = [tmpFiles EXCEPT ![n] =
                               IF CompressCleanupRemoves("Copy") THEN NoFile ELSE @]
              /\ DownloadDiffFails(c, "Copy")
              /\ UNCHANGED streams
           \/ \E complete \in BOOLEAN : \E hashed \in HashedFooter(complete) :
                 /\ tmpFiles' = [tmpFiles EXCEPT ![n] =
                                  IF CompressCleanupRemoves("") THEN NoFile
                                  ELSE File(<<Gzip(a, complete)>>)]
                 /\ loc' = [loc EXCEPT ![c].diffIDSum = SHA256(a),
                                       ![c].gzSum = SHA256(Gzip(a, hashed)),
                                       ![c].writeFailed = ~complete]
                 /\ streams' = [streams EXCEPT ![c] = "eof"]
                 /\ Goto(c, "Open")
    /\ Effect(c, "copy")
    /\ UNCHANGED <<blobFiles, layerDirs, sidecarFiles, caches, events>>
    /\ UNCHANGED outside

\* a step of downloadDiff failed after the temp file was handed over: the
\* deferred function runs with err set
AfterTmpFails(c, step) ==
    /\ tmpFiles' = [tmpFiles EXCEPT ![loc[c].tmpLayerFileName] =
                     IF DeferredCleanupRemoves(step) THEN NoFile ELSE @]
    /\ DownloadDiffFails(c, step)

\* layerFile, err := os.Open(tmpLayerFileName)
Open(c) ==
    /\ pc[c] = "Open"
    /\ \/ AfterTmpFails(c, "Open")
       \/ /\ tmpFiles[loc[c].tmpLayerFileName].exists
          /\ Goto(c, "NewReader")
          /\ UNCHANGED <<loc, tmpFiles>>
    /\ UNCHANGED <<log, blobFiles, layerDirs, sidecarFiles, caches, events, streams>>
    /\ UNCHANGED outside

\* decompressed, err := gzip.NewReader(layerFile)
NewReader(c) ==
    /\ pc[c] = "NewReader"
    /\ \/ AfterTmpFails(c, "NewReader")
       \/ /\ Goto(c, "TarWalk")
          /\ UNCHANGED <<loc, tmpFiles>>
    /\ UNCHANGED <<log, blobFiles, layerDirs, sidecarFiles, caches, events, streams>>
    /\ UNCHANGED outside

\* the loop over tr.Next() that sums the sizes, then the empty-layer override
TarWalk(c) ==
    /\ pc[c] = "TarWalk"
    /\ \/ AfterTmpFails(c, "TarWalk")
       \/ LET content == tmpFiles[loc[c].tmpLayerFileName].content[1]
              size == SumSizes(content.gz.entries)
          IN  \* without the end-of-archive blocks the tar reader reads up to the
              \* gzip footer, which must then be there
              /\ content.complete \/ content.gz.trailer
              /\ loc' = [loc EXCEPT ![c].layerSize = size,
                                    ![c].diffID = FinalDiffID(size, loc[c].diffIDSum)]
              /\ Goto(c, "MkdirAll")
              /\ UNCHANGED tmpFiles
    /\ UNCHANGED <<log, blobFiles, layerDirs, sidecarFiles, caches, events, streams>>
    /\ UNCHANGED outside

\* os.MkdirAll(destination, 0755)
MkdirAll(c) ==
    /\ pc[c] = "MkdirAll"
    /\ \/ /\ AfterTmpFails(c, "MkdirAll")
          /\ UNCHANGED <<layerDirs, log>>
       \/ /\ layerDirs' = layerDirs \cup {loc[c].layerID}
          /\ Effect(c, "mkdir")
          /\ Goto(c, "Rename")
          /\ UNCHANGED <<loc, tmpFiles>>
    /\ UNCHANGED <<blobFiles, sidecarFiles, caches, events, streams>>
    /\ UNCHANGED outside

RenameKeepsSource(file) == file

\* what os.Rename leaves at the old path
RenameSource(file) == NoFile

\* os.Rename(tmpLayerFileName, <destination>/<layerID>.tar) and the layer
\* record downloadDiff returns: DiffID, BlobSum and Size are set, nothing else
Rename(c) ==
    /\ pc[c] = "Rename"
    /\ \/ /\ AfterTmpFails(c, "Rename")
          /\ UNCHANGED <<blobFiles, log>>
       \/ LET n == loc[c].tmpLayerFileName
              lm == [NilLayer EXCEPT !.isNil = FALSE,
                                     !.DiffID = loc[c].diffID,
                                     !.BlobSum = loc[c].gzSum,
                                     !.Size = loc[c].layerSize]
          IN  /\ blobFiles' = [blobFiles EXCEPT ![loc[c].layerID] = tmpFiles[n]]
              /\ tmpFiles' = [tmpFiles EXCEPT ![n] = RenameSource(tmpFiles[n])]
              /\ loc' = [loc EXCEPT ![c].lm = lm, ![c].newLayer = lm]
              /\ Effect(c, "blobfile")
              /\ Goto(c, "setLayerConfig")
    /\ UNCHANGED <<layerDirs, sidecarFiles, caches, events, streams>>
    /\ UNCHANGED outside

(* ----------------- Image.Commit after downloadDiff -------------------- *)

\* Parent of the V1Image metadata written to the sidecar
MetaParent(vc) == vc.LayerID

\* Parent of lm.Image, which is what lm.Parent reads afterwards
ImageParent(vc) == vc.ImageID

\* err = setLayerConfig(lm, container, config, newConfig)
\* The error of downloadDiff is overwritten.  trace.Begin(lm.ID) is evaluated
\* first: with lm = nil it dereferences a nil pointer.  With lm as built by
\* downloadDiff the Image part is not assigned yet: lm.ID reads the empty
\* string if ID is a field of the record itself, and dereferences a nil
\* pointer if it is promoted from the Image pointer (the declaration of
\* ImageWithMeta is not part of the sources), so both outcomes are kept.
setLayerConfig(c) ==
    /\ pc[c] = "setLayerConfig"
    /\ LET lm == loc[c].lm
           vc == loc[c].vc
           meta == [ID |-> lm.ID, Parent |-> MetaParent(vc), Container |-> vc.ContainerID,
                    Size |-> lm.Size]
       IN  \/ /\ lm.isNil \/ ~lm.hasImage
              /\ pc' = [pc EXCEPT ![c] = "panicked"]
              /\ loc' = [loc EXCEPT ![c].err = "panic", ![c].imageID = NoImageID]
           \/ /\ ~lm.isNil
              /\ \/ ReturnError(c, "InternalServerError")
                 \/ /\ loc' = [loc EXCEPT ![c].err = "",
                                          ![c].lm = [lm EXCEPT !.Meta = <<meta>>,
                                                               !.hasImage = TRUE,
                                                               !.ID = lm.ID,
                                                               !.Parent = ImageParent(vc),
                                                               !.Store = "host"]]
                    /\ Goto(c, "WriteFile")
    /\ UNCHANGED <<log, files, caches, events, streams>>
    /\ UNCHANGED outside

\* the directory <dest>/<id> exists; for the empty id it is <dest> itself
DirExists(id) == id = "" \/ id \in layerDirs

\* ioutil.WriteFile(path.Join(destination, lm.ID+".json"), lm.Meta)
WriteFile(c) ==
    /\ pc[c] = "WriteFile"
    /\ LET lm == loc[c].lm
       IN  \/ /\ ReturnError(c, "WriteFile")
              /\ UNCHANGED <<sidecarFiles, log>>
           \/ /\ DirExists(lm.ID)
              /\ sidecarFiles' = [sidecarFiles EXCEPT ![lm.ID] = File(lm.Meta)]
              /\ Effect(c, "sidecar")
              /\ Goto(c, "LayerCacheAdd")
              /\ UNCHANGED loc
    /\ UNCHANGED <<tmpFiles, blobFiles, layerDirs, caches, events, streams>>
    /\ UNCHANGED outside

\* imagec.LayerCache().Add(lm); layers = append(layers, lm); pl := lm.Parent
LayerCacheAdd(c) ==
    /\ pc[c] = "LayerCacheAdd"
    /\ LET lm == loc[c].lm
       IN  /\ layerCache' = [layerCache EXCEPT ![lm.ID] = lm]
           /\ loc' = [loc EXCEPT ![c].layers = <<lm>>, ![c].pl = lm.Parent]
    /\ Effect(c, "layerAdd")
    /\ Goto(c, "Walk")
    /\ UNCHANGED <<files, layerCommitted, layerSaved, imageCache, imageSaved, repoCache,
                   events, streams>>
    /\ UNCHANGED outside

PlIsParentOfGot(pl, got) == got.Parent

\* pl after a pass of the loop body: the for statement has no post statement
\* and the body does not assign pl
PlAfterPass(pl, got) == pl

\* one test of the loop condition and, if it holds, one pass of the body of
\*   for pl := lm.Parent; pl != imagec.ScratchLayerID; { ... }
\* The loop has no post statement: pl keeps its first value.
Walk(c) ==
    /\ pc[c] = "Walk"
    /\ IF loc[c].pl = ScratchLayerID
       THEN /\ Goto(c, Succ("Walk"))
            /\ UNCHANGED <<loc, log>>
       ELSE LET got == LayerCacheGet(loc[c].pl)
            IN  IF got.isNil
                THEN /\ pc' = [pc EXCEPT ![c] = "done"]
                     /\ loc' = [loc EXCEPT ![c].lm = got, ![c].err = "InternalServerError",
                                           ![c].imageID = NoImageID]
                     /\ Effect(c, "walk")
                ELSE /\ Len(loc[c].layers) < MaxLayers
                     /\ loc' = [loc EXCEPT ![c].lm = got, ![c].layers = Append(@, got),
                                           ![c].pl = PlAfterPass(loc[c].pl, got)]
                     /\ Effect(c, "walk")
                     /\ UNCHANGED pc
    /\ UNCHANGED <<files, caches, events, streams>>
    /\ UNCHANGED outside

\* the image ID CreateImageConfig derives from the chain
ImageIDOf(layers, container) ==
    <<"sha256", [i \in 1 .. Len(layers) |-> <<layers[i].ID, layers[i].DiffID>>], container>>

\* imageConfig, err := ic.CreateImageConfig(layers)
CreateImageConfig(c) ==
    /\ pc[c] = "CreateImageConfig"
    /\ \/ ReturnError(c, "CreateImageConfig")
       \/ /\ loc' = [loc EXCEPT ![c].ImageID = ImageIDOf(loc[c].layers, loc[c].vc.ContainerID)]
          /\ Goto(c, Succ("CreateImageConfig"))
    /\ UNCHANGED <<log, files, caches, events, streams>>
    /\ UNCHANGED outside

\* cache.ImageCache().Add(&imageConfig)
ImageCacheAdd(c) ==
    /\ pc[c] = "ImageCacheAdd"
    /\ imageCache' = imageCache \cup {loc[c].ImageID}
    /\ Effect(c, "imageAdd")
    /\ Goto(c, Succ("ImageCacheAdd"))
    /\ UNCHANGED <<loc, files, layerCache, layerCommitted, layerSaved, imageSaved, repoCache,
                   events, streams>>
    /\ UNCHANGED outside

\* cache.ImageCache().Save()
ImageCacheSave(c) ==
    /\ pc[c] = "ImageCacheSave"
    /\ Effect(c, "imageSave")
    /\ \/ /\ pc' = [pc EXCEPT ![c] = "done"]
          /\ loc' = [loc EXCEPT ![c].err = "error saving image cache",
                                ![c].imageID = NoImageID, ![c].persistFailed = TRUE]
          /\ UNCHANGED imageSaved
       \/ /\ imageSaved' = imageCache
          /\ Goto(c, Succ("ImageCacheSave"))
          /\ UNCHANGED loc
    /\ UNCHANGED <<files, layerCache, layerCommitted, layerSaved, imageCache, repoCache,
                   events, streams>>
    /\ UNCHANGED outside

AlwaysUpdateRepo(ref) == TRUE

\* if ic.Reference != nil
HasReference(ref) == ~ref.isNil

\* imagec.UpdateRepositoryCache(ic), when a reference is set
UpdateRepositoryCache(c) ==
    /\ pc[c] = "UpdateRepositoryCache"
    /\ LET ref == loc[c].Reference
       IN  IF HasReference(ref)
           THEN /\ repoCache' = {p \in repoCache : p[1] # RefString(ref)}
                                   \cup {<<RefString(ref), loc[c].ImageID>>}
                /\ Effect(c, "repo")
           ELSE UNCHANGED <<repoCache, log>>
    /\ Goto(c, Succ("UpdateRepositoryCache"))
    /\ UNCHANGED <<loc, files, layerCache, layerCommitted, layerSaved, imageCache, imageSaved,
                   events, streams>>
    /\ UNCHANGED outside

\* ic.WriteImageBlob(lm, ...): lm is the record the walk assigned last
WriteImageBlob(c) ==
    /\ pc[c] = "WriteImageBlob"
    /\ Effect(c, "blob")
    /\ \/ /\ pc' = [pc EXCEPT ![c] = "done"]
          /\ loc' = [loc EXCEPT ![c].err = "WriteImageBlob", ![c].imageID = NoImageID,
                                ![c].blobLayer = loc[c].lm]
       \/ /\ loc' = [loc EXCEPT ![c].blobLayer = loc[c].lm]
          /\ Goto(c, Succ("WriteImageBlob"))
    /\ UNCHANGED <<files, caches, events, streams>>
    /\ UNCHANGED outside

\* imagec.LayerCache().Commit(lm): the layer is marked committed and the layer
\* cache is persisted; the result of the call is not used by Image.Commit
LayerCacheCommit(c) ==
    /\ pc[c] = "LayerCacheCommit"
    /\ layerCommitted' = layerCommitted \cup {loc[c].lm.ID}
    /\ \E saved \in LayerCachePersistOutcomes :
          /\ layerSaved' = IF saved THEN layerCommitted' ELSE layerSaved
          /\ loc' = [loc EXCEPT ![c].commitLayer = loc[c].lm,
                                ![c].persistFailed = ~saved]
    /\ Effect(c, "layerCommit")
    /\ Goto(c, Succ("LayerCacheCommit"))
    /\ UNCHANGED <<files, layerCache, imageCache, imageSaved, repoCache, events, streams>>
    /\ UNCHANGED outside

\* refName := ""; if ic.Reference != nil { refName = ic.Reference.String() }
RefName(ref) == IF ~ref.isNil THEN RefString(ref) ELSE <<>>

\* EventService().Log("commit", ImageEventType, actor); return imageConfig.ImageID, nil
LogEvent(c) ==
    /\ pc[c] = "LogEvent"
    /\ events' = Append(events, [call |-> c, action |-> "commit", imageID |-> loc[c].ImageID,
                                 refName |-> RefName(loc[c].Reference)])
    /\ loc' = [loc EXCEPT ![c].imageID = loc[c].ImageID, ![c].err = "",
                          ![c].refName = RefName(loc[c].Reference)]
    /\ Effect(c, "event")
    /\ Goto(c, Succ("LogEvent"))
    /\ UNCHANGED <<files, caches, streams>>
    /\ UNCHANGED outside

(* ------------------------------- merge -------------------------------- *)

RECURSIVE EnvKey(_)
\* strings.Split(s, "=")[0]: the characters before the first '='
EnvKey(s) ==
    IF s = <<>> \/ Head(s) = "=" THEN <<>> ELSE <<Head(s)>> \o EnvKey(Tail(s))

\* strings.ToUpper, on the letters the Env strings are made of
ToUpper(s) == [i \in DOMAIN s |-> IF s[i] = "a" THEN "A" ELSE s[i]]

\* imageEnvKey == userEnvKey, after both are upper-cased on windows
SameEnvKey(imageEnvKey, userEnvKey) ==
    IF goos = "windows" THEN ToUpper(imageEnvKey) = ToUpper(userEnvKey)
    ELSE imageEnvKey = userEnvKey

EnvRangedArgument(arg, current) == arg

\* the list the inner loop ranges over: userConf.Env as it is when the loop
\* starts for one image entry, the entries appended before included
EnvRanged(arg, current) == current

RECURSIVE EnvLoop(_, _, _)
\* for _, imageEnv := range imageConf.Env { ... append ... }
EnvLoop(arg, current, imageEnv) ==
    IF imageEnv = <<>> THEN current
    ELSE LET ranged == EnvRanged(arg, current)
             found == \E i \in DOMAIN ranged :
                          SameEnvKey(EnvKey(Head(imageEnv)), EnvKey(ranged[i]))
         IN  EnvLoop(arg, IF found THEN current ELSE Append(current, Head(imageEnv)),
                     Tail(imageEnv))

mergeEnv(user, image) ==
    IF Len(user) = 0 THEN image ELSE EnvLoop(user, user, image)

\* ExposedPorts: the image's map when the user's is empty, else the user's
\* map with the image's missing keys added
mergeExposedPorts(user, image) ==
    IF Cardinality(user) = 0 THEN image ELSE user \cup image

LabelImageWins(user, image, l) ==
    IF l \in DOMAIN image THEN image[l] ELSE user[l]

\* the value of label l after the loop over imageConf.Labels
LabelValue(user, image, l) ==
    IF l \in DOMAIN user THEN user[l] ELSE image[l]

\* Labels: a nil map becomes an empty one, then the image's labels the user
\* has no key for are added
mergeLabels(user, image) ==
    LabelMap([l \in DOMAIN user.m \cup DOMAIN image.m |-> LabelValue(user.m, image.m, l)])

\* Volumes: the image's map when the user's is empty, else every image key is
\* stored into the user's map (the values are struct{})
mergeVolumes(user, image) ==
    IF Cardinality(user) = 0 THEN image ELSE user \cup image

EntrypointWhenEmpty(user) == Len(user.Entrypoint.elems) = 0

\* userConf.Entrypoint == nil
EntrypointUnset(user) == user.Entrypoint.isNil

\* Entrypoint, Cmd and ArgsEscaped
mergeEntrypoint(user, image) ==
    IF Len(user.Entrypoint.elems) = 0
    THEN LET c == IF Len(user.Cmd.elems) = 0
                  THEN [user EXCEPT !.Cmd = image.Cmd, !.ArgsEscaped = image.ArgsEscaped]
                  ELSE user
         IN  IF EntrypointUnset(user) THEN [c EXCEPT !.Entrypoint = image.Entrypoint] ELSE c
    ELSE user

HealthFieldImageWins(unset, userValue, imageValue) == imageValue

\* one sub-field of Healthcheck: the image's value if the user's is unset
HealthField(unset, userValue, imageValue) ==
    IF unset THEN imageValue ELSE userValue

mergeHealthcheck(user, image) ==
    IF ~image.isNil
    THEN IF user.isNil THEN image
         ELSE [isNil |-> FALSE,
               Test |-> HealthField(Len(user.Test) = 0, user.Test, image.Test),
               Interval |-> HealthField(user.Interval = 0, user.Interval, image.Interval),
               Timeout |-> HealthField(user.Timeout = 0, user.Timeout, image.Timeout),
               Retries |-> HealthField(user.Retries = 0, user.Retries, image.Retries)]
    ELSE user

\* a string field: the image's value if the user's is ""
mergeString(user, image) == IF user = "" THEN image ELSE user

\* merge(userConf, imageConf): *userConf after the call
merge(user, image) ==
    LET e == mergeEntrypoint(user, image)
    IN  [User |-> mergeString(user.User, image.User),
         ExposedPorts |-> mergeExposedPorts(user.ExposedPorts, image.ExposedPorts),
         Env |-> mergeEnv(user.Env, image.Env),
         Labels |-> mergeLabels(user.Labels, image.Labels),
         Entrypoint |-> e.Entrypoint,
         Cmd |-> e.Cmd,
         ArgsEscaped |-> e.ArgsEscaped,
         Healthcheck |-> mergeHealthcheck(user.Healthcheck, image.Healthcheck),
         WorkingDir |-> mergeString(user.WorkingDir, image.WorkingDir),
         Volumes |-> mergeVolumes(user.Volumes, image.Volumes),
         StopSignal |-> mergeString(user.StopSignal, image.StopSignal)]

\* a call merge(userConf, imageConf) is about to be made
InitMerge ==
    /\ \E family \in ConfigFamilies :
          /\ userArg \in family
          /\ imageConf \in family
    /\ userConf = userArg
    /\ goos \in GOOS
    /\ mergePc = "call"

\* the call: userConf is mutated, imageConf is not
Merge ==
    /\ mergePc = "call"
    /\ userConf' = merge(userConf, imageConf)
    /\ mergePc' = "returned"
    /\ UNCHANGED <<userArg, imageConf, goos, commitVars, portVars>>

(* --------------------------- specifications --------------------------- *)

Step(c) ==
    \/ BeginCommit(c)
    \/ GetContainer(c)
    \/ ContainerInspect(c)
    \/ BuildFromConfig(c)
    \/ ArchiveExportReader(c)
    \/ getImagec(c)
    \/ TempFile(c) /\ FirstNames(c)
    \/ Copy(c)
    \/ Open(c)
    \/ NewReader(c)
    \/ TarWalk(c)
    \/ MkdirAll(c)
    \/ Rename(c)
    \/ setLayerConfig(c)
    \/ WriteFile(c)
    \/ LayerCacheAdd(c)
    \/ Walk(c)
    \/ CreateImageConfig(c)
    \/ ImageCacheAdd(c)
    \/ ImageCacheSave(c)
    \/ UpdateRepositoryCache(c)
    \/ WriteImageBlob(c)
    \/ LayerCacheCommit(c)
    \/ LogEvent(c)

\* one Commit call
Next == Step(1)

Spec == Init /\ [][Next]_vars

\* no Commit call has started: the state Init leaves, with the full layer cache
IdleCommit ==
    /\ pc = [c \in Calls |-> "idle"]
    /\ loc = [c \in Calls |-> InitLoc]
    /\ log = [c \in Calls |-> <<>>]
    /\ tmpFiles = [n \in TmpNames |-> NoFile]
    /\ blobFiles = [id \in LayerKeys |-> NoFile]
    /\ layerDirs = {}
    /\ sidecarFiles = [id \in LayerKeys |-> NoFile]
    /\ layerCache = [id \in LayerKeys |-> IF id \in BaseLayers THEN BaseLayer(id) ELSE NilLayer]
    /\ layerCommitted = BaseLayers
    /\ layerSaved = BaseLayers
    /\ imageCache = {}
    /\ imageSaved = {}
    /\ repoCache = {<<(<<"repo", "v1">>), OldImageID>>}
    /\ events = <<>>
    /\ streams = [c \in Calls |-> "none"]

\* calls of merge on the configurations of ConfigFamilies
InitM == InitMerge /\ IdleCommit /\ IdlePort

NextMerge == Merge

SpecMerge == InitM /\ [][NextMerge]_vars

(* ------------------ portlayer.Init, TakeCareOfSerialPorts -------------- *)

\* exec.Containers.Containers(runningState): the running containers
RunningContainers(state) ==
    SelectSeq(AllContainers, LAMBDA id : state[id] = "Running")

\* the statement after step number k of InitSteps
AfterInitStep(k) ==
    IF k < Len(InitSteps) THEN InitSteps[k + 1] ELSE "TakeCareOfSerialPorts"

\* one of the steps of Init before TakeCareOfSerialPorts: if err != nil { return err }
InitStep ==
    /\ \E k \in DOMAIN InitSteps :
          /\ initPc = InitSteps[k]
          /\ \/ /\ \E concurrent \in BOOLEAN : initErr' = Err(FALSE, concurrent)
                /\ initPc' = "returned"
             \/ /\ initPc' = AfterInitStep(k)
                /\ UNCHANGED initErr
    /\ UNCHANGED <<containerState, containers, idx, opPc, cur, attempts, lastErr, portLog>>
    /\ UNCHANGED <<commitVars, mergeVars>>

\* TakeCareOfSerialPorts(sess) is called: containers := the running containers
SerialPortsBegin ==
    /\ initPc = "TakeCareOfSerialPorts"
    /\ containers' = RunningContainers(containerState)
    /\ idx' = 1
    /\ opPc' = "loop"
    /\ initPc' = "inTakeCareOfSerialPorts"
    /\ UNCHANGED <<initErr, containerState, cur, attempts, lastErr, portLog>>
    /\ UNCHANGED <<commitVars, mergeVars>>

\* for i := range containers: the next container is taken up, or the
\* function returns when the list is through
LoopHead ==
    /\ opPc = "loop"
    /\ IF idx <= Len(containers)
       THEN /\ opPc' = "NewHandle"
            /\ UNCHANGED initPc
       ELSE /\ opPc' = "none"
            /\ initPc' = "return"
    /\ cur' = <<>>
    /\ UNCHANGED <<initErr, containerState, containers, idx, attempts, lastErr, portLog>>
    /\ UNCHANGED <<commitVars, mergeVars>>

\* operation returns err: retry.Do looks at it next
OperationReturns(made, err) ==
    /\ attempts' = [attempts EXCEPT ![containers[idx]] = Append(@, [steps |-> made, err |-> err])]
    /\ lastErr' = err
    /\ cur' = <<>>
    /\ opPc' = "retry.Do"

\* operation logs err and returns it
OperationFails(made, err, line) ==
    /\ OperationReturns(made, err)
    /\ portLog' = Append(portLog, <<containers[idx], line>>)

\* operation goes on with the next call
OperationGoesOn(made, next) ==
    /\ cur' = made
    /\ opPc' = next
    /\ UNCHANGED <<attempts, lastErr, portLog>>

\* handle := containers[i].NewHandle(ctx); a nil handle is an error
NewHandle ==
    /\ opPc = "NewHandle"
    /\ LET made == Append(cur, "handle")
       IN  \/ OperationFails(made, Err(TRUE, FALSE), "unable to obtain a handle")
           \/ OperationGoesOn(made, "Unbind")
    /\ UNCHANGED <<initPc, initErr, containerState, containers, idx>>
    /\ UNCHANGED <<commitVars, mergeVars>>

\* unbindHandle, err := attach.Unbind(handle), and the type assertion: the
\* error of Unbind, whatever its type, is wrapped by fmt.Errorf
Unbind ==
    /\ opPc = "Unbind"
    /\ LET made == Append(cur, "unbind")
       IN  \/ \E concurrent \in BOOLEAN :
                 OperationFails(made, Err(TRUE, concurrent), "unable to unbind serial port")
           \/ OperationFails(made, Err(TRUE, FALSE), "handle type assertion failed")
           \/ OperationGoesOn(made, "Bind")
    /\ UNCHANGED <<initPc, initErr, containerState, containers, idx>>
    /\ UNCHANGED <<commitVars, mergeVars>>

\* bindHandle, err := logging.Bind(execHandle), and the type assertion
Bind ==
    /\ opPc = "Bind"
    /\ LET made == Append(cur, "bind")
       IN  \/ \E concurrent \in BOOLEAN :
                 OperationFails(made, Err(TRUE, concurrent), "unable to unbind serial port")
           \/ OperationFails(made, Err(TRUE, FALSE), "handle type assertion failed")
           \/ OperationGoesOn(made, "Commit")
    /\ UNCHANGED <<initPc, initErr, containerState, containers, idx>>
    /\ UNCHANGED <<commitVars, mergeVars>>

\* execHandle.Commit(ctx, sess, nil): its error is returned as it is
HandleCommit ==
    /\ opPc = "Commit"
    /\ LET made == Append(cur, "commit")
       IN  \/ \E concurrent \in BOOLEAN :
                 OperationFails(made, Err(FALSE, concurrent), "unable to commit handle")
           \/ /\ OperationReturns(made, NilErr)
              /\ UNCHANGED portLog
    /\ UNCHANGED <<initPc, initErr, containerState, containers, idx>>
    /\ UNCHANGED <<commitVars, mergeVars>>

\* exec.IsConcurrentAccessError(err): err is of type ConcurrentAccessError,
\* which an error made by fmt.Errorf is not
IsConcurrentAccessError(err) == ~err.isNil /\ ~err.wrapped /\ err.concurrent

\* retry.Do may run the operation again: the error is one to retry on and
\* the attempts are not used up
MayRetry(err, made) == IsConcurrentAccessError(err) /\ made < MaxAttempts

\* retry.Do gives up: always possible for an error (on a retryable one, when
\* its time is up)
GivesUp(err) == ~err.isNil

\* the loop variable after a container whose operation failed for good
NextContainer(i) == i + 1

\* retry.Do(operation, exec.IsConcurrentAccessError) after an attempt, and
\* the log line for the error it returns
RetryDo ==
    /\ opPc = "retry.Do"
    /\ \/ /\ lastErr.isNil
          /\ idx' = idx + 1
          /\ opPc' = "loop"
          /\ UNCHANGED portLog
       \/ /\ MayRetry(lastErr, Len(attempts[containers[idx]]))
          /\ opPc' = "NewHandle"
          /\ UNCHANGED <<idx, portLog>>
       \/ /\ GivesUp(lastErr)
          /\ portLog' = Append(portLog, <<containers[idx], "Multiple attempts failed">>)
          /\ idx' = NextContainer(idx)
          /\ opPc' = "loop"
    /\ UNCHANGED <<initPc, initErr, containerState, containers, cur, attempts, lastErr>>
    /\ UNCHANGED <<commitVars, mergeVars>>

InitResultIsLastError(err) == err

\* what Init returns after TakeCareOfSerialPorts, which has no result: nil,
\* whatever err the last retry.Do returned
InitResult(err) == NilErr

\* return nil
InitReturn ==
    /\ initPc = "return"
    /\ initErr' = InitResult(lastErr)
    /\ initPc' = "returned"
    /\ UNCHANGED <<containerState, containers, idx, opPc, cur, attempts, lastErr, portLog>>
    /\ UNCHANGED <<commitVars, mergeVars>>

\* Init is called with some containers of the cache running
InitPort ==
    /\ initPc = InitSteps[1]
    /\ initErr = NilErr
    /\ containerState \in [ContainerIDs -> ContainerStates]
    /\ containers = <<>>
    /\ idx = 0
    /\ opPc = "none"
    /\ cur = <<>>
    /\ attempts = [id \in ContainerIDs |-> <<>>]
    /\ lastErr = NilErr
    /\ portLog = <<>>

InitP == InitPort /\ IdleCommit /\ IdleMerge

NextPort ==
    \/ InitStep
    \/ SerialPortsBegin
    \/ LoopHead
    \/ NewHandle
    \/ Unbind
    \/ Bind
    \/ HandleCommit
    \/ RetryDo
    \/ InitReturn

SpecPort == InitP /\ [][NextPort]_vars

\* the inputs of the concurrent calls: two stopped containers (or one,
\* committed twice), no repository, an archive of one entry, no failure
\* before downloadDiff is called and no write failure that goes unnoticed
ConcInputs(c) ==
    pc[c] # "idle" =>
        /\ loc[c].name \in {"c0", "c1"}
        /\ loc[c].Repo = ""
        /\ loc[c].Tag = ""
        /\ ~loc[c].Running /\ ~loc[c].Restarting
        /\ pc[c] # "done"
        /\ ~loc[c].writeFailed
        /\ streams[c] # "none" => loc[c].archive = [entries |-> <<1>>, trailer |-> TRUE]

\* a step of call c up to the return of downloadDiff
ConcStep(c) ==
    \/ BeginCommit(c) /\ ConcInputs(c)'
    \/ GetContainer(c)
    \/ ContainerInspect(c) /\ ConcInputs(c)'
    \/ BuildFromConfig(c) /\ ConcInputs(c)'
    \/ ArchiveExportReader(c) /\ ConcInputs(c)'
    \/ getImagec(c)
    \/ TempFile(c) /\ FirstNames(c)
    \/ Copy(c) /\ ConcInputs(c)'
    \/ Open(c)
    \/ NewReader(c)
    \/ TarWalk(c)
    \/ MkdirAll(c)
    \/ Rename(c)

\* Commit calls running concurrently, in any interleaving of their steps
InitConc == IdleCommit /\ IdleMerge /\ IdlePort

NextConc == \E c \in Calls : ConcStep(c)

SpecConc == InitConc /\ [][NextConc]_vars

(* ------------------------------ claims -------------------------------- *)

Done(c) == pc[c] = "done"

Succeeded(c) == pc[c] = "done" /\ loc[c].err = ""

Failed(c) == pc[c] = "panicked" \/ (pc[c] = "done" /\ loc[c].err # "")

EventsOf(c) == {i \in 1 .. Len(events) : events[i].call = c}

\* no file, cache entry or repository mapping has been written since Init
NothingWritten ==
    /\ \A n \in TmpNames : ~tmpFiles[n].exists
    /\ \A id \in LayerKeys : ~blobFiles[id].exists /\ ~sidecarFiles[id].exists
    /\ layerDirs = {}
    /\ \A id \in LayerKeys \ BaseLayers : layerCache[id].isNil
    /\ layerCommitted \subseteq BaseLayers
    /\ layerSaved \subseteq BaseLayers
    /\ imageCache = {}
    /\ imageSaved = {}

\* C1: a Commit whose container was inspected as Running or Restarting ends
\* with a Conflict error and without an image ID, and nothing has been written
\* to the file system or the caches, no export stream was requested and no
\* event was logged
C1_RunningRejected ==
    \A c \in Calls :
        (loc[c].Running \/ loc[c].Restarting) =>
            /\ pc[c] = "done"
            /\ loc[c].err = "Conflict"
            /\ loc[c].imageID = NoImageID
            /\ log[c] = <<>>
            /\ streams[c] = "none"
            /\ events = <<>>
            /\ repoCache = loc[c].preRepo
            /\ NothingWritten

C1_Witness ==
    \E c \in Calls : Done(c) /\ loc[c].Restarting /\ ~loc[c].Running /\ loc[c].err = "Conflict"

LaterSteps == {"sidecar", "layerAdd", "walk", "imageAdd", "imageSave", "repo", "blob",
               "layerCommit", "event"}

LogSet(c) == {log[c][i] : i \in 1 .. Len(log[c])}

\* C2: when downloadDiff has failed, Commit returns an error to its caller
\* (once it has left the statement after downloadDiff) and none of the later
\* steps has been executed
C2_DownloadDiffErrorReturned ==
    \A c \in Calls :
        (loc[c].failedAt # "" /\ pc[c] # "setLayerConfig") =>
            /\ pc[c] = "done"
            /\ loc[c].err # ""
            /\ loc[c].imageID = NoImageID
            /\ LogSet(c) \cap LaterSteps = {}

StepsAfterTempFile == {"Copy", "Open", "NewReader", "TarWalk", "MkdirAll", "Rename"}

\* C3: when downloadDiff has returned an error from a step after the temp
\* file was created, the temp file does not exist and there is no blob file
\* at the final path of the layer
C3_NoFileAfterFailure ==
    \A c \in Calls :
        loc[c].failedAt \in StepsAfterTempFile =>
            /\ ~tmpFiles[loc[c].tmpLayerFileName].exists
            /\ ~blobFiles[loc[c].layerID].exists

C3_Witness ==
    \E c \in Calls :
        /\ loc[c].failedAt = "Rename"
        /\ loc[c].layerID \in layerDirs
        /\ ~tmpFiles[loc[c].tmpLayerFileName].exists

\* C4: the list the chain walk builds is the chain from the new layer towards
\* the root: every element is the parent of the one before it, so that no
\* ancestor appears twice
C4_ChainInOrder ==
    \A c \in Calls :
        \A i \in 1 .. Len(loc[c].layers) - 1 :
            loc[c].layers[i + 1].ID = loc[c].layers[i].Parent

RECURSIVE FirstMissing(_, _)
\* the depth of the first ancestor that is not in the layer cache on the
\* chain that starts at id (depth n), 0 if the chain reaches scratch
FirstMissing(id, n) ==
    IF id = ScratchLayerID THEN 0
    ELSE IF LayerCacheGet(id).isNil THEN n
    ELSE FirstMissing(LayerCacheGet(id).Parent, n + 1)

\* C5: when an ancestor at depth d of the new layer's chain is missing from
\* the layer cache, the walk has appended no more than the d - 1 ancestors
\* before it, and a Commit that has left the walk has returned an error
\* without an image cache entry, repository update or event
C5_MissingAncestorFails ==
    \A c \in Calls :
        (Len(loc[c].layers) > 0 /\ FirstMissing(loc[c].pl, 1) > 0) =>
            /\ Len(loc[c].layers) <= FirstMissing(loc[c].pl, 1)
            /\ pc[c] # "Walk" =>
                  /\ pc[c] = "done"
                  /\ loc[c].err # ""
                  /\ LogSet(c) \cap {"imageAdd", "repo", "event"} = {}

\* C6: a successful Commit with a valid Repo has mapped the supplied
\* reference to the new image ID and logged the event with that reference
C6_RepoTagged ==
    \A c \in Calls :
        (Succeeded(c) /\ loc[c].Repo # "") =>
            /\ <<(<<loc[c].Repo, loc[c].Tag>>), loc[c].imageID>> \in repoCache
            /\ loc[c].refName = <<loc[c].Repo, loc[c].Tag>>
            /\ \E i \in EventsOf(c) : events[i].refName = <<loc[c].Repo, loc[c].Tag>>

\* C7: a successful Commit without Repo and Tag returns the new image ID,
\* leaves the repository cache as it was, and has logged exactly one event,
\* with that image ID and the empty refName
C7_UntaggedCommit ==
    \A c \in Calls :
        (Succeeded(c) /\ loc[c].Repo = "" /\ loc[c].Tag = "") =>
            /\ loc[c].imageID # NoImageID
            /\ loc[c].imageID = ImageIDOf(loc[c].layers, loc[c].vc.ContainerID)
            /\ loc[c].imageID \in imageSaved
            /\ repoCache = loc[c].preRepo
            /\ Cardinality(EventsOf(c)) = 1
            /\ \A i \in EventsOf(c) :
                  events[i].imageID = loc[c].imageID /\ events[i].refName = <<>>

C7_Witness ==
    \E c \in Calls :
        /\ Succeeded(c) /\ loc[c].Repo = "" /\ loc[c].Tag = ""
        /\ loc[c].preRepo # {}
        /\ Len(events) = 1

\* C8: a Commit during which the persistence of the image cache or of the
\* layer cache failed ends with an error, without an image ID and without
\* an event
C8_PersistenceFailureFails ==
    \A c \in Calls :
        (loc[c].persistFailed /\ pc[c] = "done") =>
            /\ loc[c].err # ""
            /\ loc[c].imageID = NoImageID
            /\ EventsOf(c) = {}

\* the stage of the pipeline a side effect belongs to
Stage(e) ==
    CASE e \in {"export", "tmpfile", "copy", "mkdir", "blobfile"} -> 1
      [] e \in {"sidecar", "layerAdd"} -> 2
      [] e = "walk" -> 3
      [] e \in {"imageAdd", "imageSave", "repo", "blob", "layerCommit"} -> 4
      [] OTHER -> 5

\* C9: the side effects of one Commit happen in the order capture, chain
\* walk, persistence, event: the stream has been read to its end before the
\* walk starts, the image cache save, blob write and layer cache commit are
\* done before the event, a successful Commit has logged exactly one event
\* and a failed one none
C9_StrictOrder ==
    \A c \in Calls :
        /\ \A i \in 1 .. Len(log[c]) - 1 : Stage(log[c][i]) <= Stage(log[c][i + 1])
        /\ (pc[c] \in {"Walk", "CreateImageConfig"} \/ "walk" \in LogSet(c)) =>
              /\ streams[c] = "eof"
              /\ "imageSave" \notin LogSet(c)
        /\ "event" \in LogSet(c) =>
              /\ {"imageSave", "blob", "layerCommit"} \subseteq LogSet(c)
              /\ loc[c].ImageID \in imageSaved
              /\ (HasReference(loc[c].Reference) => "repo" \in LogSet(c))
        /\ Succeeded(c) => Cardinality(EventsOf(c)) = 1
        /\ Failed(c) => EventsOf(c) = {}
        /\ Cardinality(EventsOf(c)) <= 1

C9_Witness ==
    \E c \in Calls :
        /\ Succeeded(c)
        /\ log[c] = <<"export", "tmpfile", "copy", "mkdir", "blobfile", "sidecar", "layerAdd",
                      "imageAdd", "imageSave", "blob", "layerCommit", "event">>

\* C10: the layer record of the materializer has the empty-archive digest as
\* its diffID if the entry sizes of the exported archive sum to zero, and the
\* digest of the exported bytes otherwise
C10_EmptyDiffID ==
    \A c \in Calls :
        ~loc[c].newLayer.isNil =>
            /\ loc[c].newLayer.Size = SumSizes(loc[c].archive.entries)
            /\ loc[c].newLayer.DiffID =
                  IF SumSizes(loc[c].archive.entries) = 0
                  THEN DigestSHA256EmptyTar
                  ELSE SHA256(loc[c].archive)

C10_Witness ==
    \E c \in Calls :
        /\ ~loc[c].newLayer.isNil
        /\ loc[c].archive.entries # <<>>
        /\ SumSizes(loc[c].archive.entries) = 0
        /\ loc[c].diffIDSum # DigestSHA256EmptyTar
        /\ loc[c].newLayer.DiffID = DigestSHA256EmptyTar

\* C11: after a successful materialization the temp file is gone from its
\* path, the blob of the layer is at <destination>/<layerID>/<layerID>.tar
\* with the compressed archive as its content, and it is the only blob file
\* the call has produced
C11_BlobAtFinalPath ==
    \A c \in Calls :
        ~loc[c].newLayer.isNil =>
            /\ ~tmpFiles[loc[c].tmpLayerFileName].exists
            /\ loc[c].layerID \in RandomIDs
            /\ loc[c].layerID \in layerDirs
            /\ blobFiles[loc[c].layerID].exists
            /\ Len(blobFiles[loc[c].layerID].content) = 1
            /\ blobFiles[loc[c].layerID].content[1].gz = loc[c].archive
            /\ {id \in LayerKeys : blobFiles[id].exists} = {loc[c].layerID}

C11_Witness ==
    \E c \in Calls :
        /\ ~loc[c].newLayer.isNil
        /\ loc[c].tmpLayerFileName \in TmpNames
        /\ blobFiles[loc[c].layerID].exists
        /\ loc[c].archive.entries # <<>>

\* C12: the layer record of the materializer has the random layer ID as its
\* ID; once the sidecar is written it is in the directory of the blob, and
\* once the layer is cached it is cached under that ID
C12_RecordCarriesLayerID ==
    \A c \in Calls :
        ~loc[c].newLayer.isNil =>
            /\ loc[c].newLayer.ID = loc[c].layerID
            /\ "sidecar" \in LogSet(c) => sidecarFiles[loc[c].layerID].exists
            /\ "layerAdd" \in LogSet(c) => ~layerCache[loc[c].layerID].isNil

Returned(c) == pc[c] \in {"done", "panicked"}

\* C13: when Commit has ended after it obtained the export stream, the
\* stream is closed, and after a successful Commit it was read to its end
C13_StreamClosed ==
    \A c \in Calls :
        (Returned(c) /\ streams[c] # "none") => streams[c] = "closed"

CompressFailures == {"TempFile", "Copy"}

\* C14: when a read from the stream or a write to the temp file failed in
\* the compression pass, the writes of Flush and Close included,
\* compressDiffToTmpFile has returned an error and no digests
C14_WriteFailureReturned ==
    \A c \in Calls :
        (loc[c].failedAt = "Copy" \/ loc[c].writeFailed) =>
            /\ loc[c].failedAt \in CompressFailures
            /\ loc[c].diffIDSum = <<>>
            /\ loc[c].gzSum = <<>>

(* ------------------------- claims about merge ------------------------- *)

MergeReturned == mergePc = "returned"

NoEntrypoint(conf) == Len(conf.Entrypoint.elems) = 0

NoCmd(conf) == Len(conf.Cmd.elems) = 0

\* C15 as stated: Entrypoint, Cmd and ArgsEscaped are the base image's when the
\* user configuration has no entrypoint (nil or empty) and no command, and
\* are the user's own in every other case.
C15_OnlyTogether ==
    MergeReturned =>
        IF NoEntrypoint(userArg) /\ NoCmd(userArg)
        THEN /\ userConf.Entrypoint = imageConf.Entrypoint
             /\ userConf.Cmd = imageConf.Cmd
             /\ userConf.ArgsEscaped = imageConf.ArgsEscaped
        ELSE /\ userConf.Entrypoint = userArg.Entrypoint
             /\ userConf.Cmd = userArg.Cmd
             /\ userConf.ArgsEscaped = userArg.ArgsEscaped

\* C15 amended: with a non-empty user entrypoint nothing is taken from the
\* base image.  With an entrypoint of length 0, Cmd and ArgsEscaped are the
\* base image's exactly when the user has no command, and Entrypoint is the
\* base image's exactly when the user's entrypoint is nil: an empty, non-nil
\* entrypoint is kept, and a nil entrypoint is inherited also next to a
\* user command.
C15_EntrypointAndCmd ==
    MergeReturned =>
        /\ userConf.Cmd =
              IF NoEntrypoint(userArg) /\ NoCmd(userArg) THEN imageConf.Cmd ELSE userArg.Cmd
        /\ userConf.ArgsEscaped =
              IF NoEntrypoint(userArg) /\ NoCmd(userArg) THEN imageConf.ArgsEscaped
              ELSE userArg.ArgsEscaped
        /\ userConf.Entrypoint =
              IF userArg.Entrypoint.isNil THEN imageConf.Entrypoint ELSE userArg.Entrypoint

C15_Witness ==
    /\ MergeReturned
    /\ userArg.Entrypoint.isNil
    /\ ~NoCmd(userArg)
    /\ ~NoEntrypoint(imageConf)
    /\ userConf.Entrypoint = imageConf.Entrypoint
    /\ userConf.Cmd = userArg.Cmd

\* the name of entry e equals the name of an entry of list env
NameIn(e, env) == \E i \in DOMAIN env : SameEnvKey(EnvKey(e), EnvKey(env[i]))

RECURSIVE SelectFrom(_, _, _)
\* the entries image[j], j >= from, that Keep(j) holds for, in order
SelectFrom(image, keep, from) ==
    IF from > Len(image) THEN <<>>
    ELSE (IF from \in keep THEN <<image[from]>> ELSE <<>>) \o SelectFrom(image, keep, from + 1)

\* C16 as stated: the result is the user list followed by exactly the base
\* entries whose name equals no user entry's name, in base order.
C16_EnvAppended ==
    MergeReturned =>
        userConf.Env =
            userArg.Env \o
            SelectFrom(imageConf.Env,
                       {j \in DOMAIN imageConf.Env : ~NameIn(imageConf.Env[j], userArg.Env)}, 1)

\* C16 amended: for an empty user list the result is the base list as it is.
\* Otherwise it is the user list followed, in base order, by the base
\* entries whose name equals no user entry's name and no earlier base
\* entry's name (of several base entries with one name only the first is
\* appended).
C16_EnvFirstOfName ==
    MergeReturned =>
        userConf.Env =
            IF Len(userArg.Env) = 0 THEN imageConf.Env
            ELSE userArg.Env \o
                 SelectFrom(imageConf.Env,
                            {j \in DOMAIN imageConf.Env :
                                /\ ~NameIn(imageConf.Env[j], userArg.Env)
                                /\ ~NameIn(imageConf.Env[j], SubSeq(imageConf.Env, 1, j - 1))}, 1)

C16_Witness ==
    /\ MergeReturned
    /\ Len(userArg.Env) > 0
    /\ \E j, k \in DOMAIN imageConf.Env :
          /\ j < k
          /\ EnvKey(imageConf.Env[j]) = EnvKey(imageConf.Env[k])
          /\ imageConf.Env[j] # imageConf.Env[k]
          /\ ~NameIn(imageConf.Env[j], userArg.Env)
          /\ userConf.Env = Append(userArg.Env, imageConf.Env[j])

\* C17: the keys of ExposedPorts, Volumes and Labels are the union of the
\* user's and the base image's keys, and every key of the user configuration
\* keeps the user's value.
C17_SetFieldsUnion ==
    MergeReturned =>
        /\ userConf.ExposedPorts = userArg.ExposedPorts \cup imageConf.ExposedPorts
        /\ userConf.Volumes = userArg.Volumes \cup imageConf.Volumes
        /\ DOMAIN userConf.Labels.m = DOMAIN userArg.Labels.m \cup DOMAIN imageConf.Labels.m
        /\ \A l \in DOMAIN userArg.Labels.m : userConf.Labels.m[l] = userArg.Labels.m[l]

C17_Witness ==
    /\ MergeReturned
    /\ \E l \in DOMAIN userArg.Labels.m \cap DOMAIN imageConf.Labels.m :
          /\ userArg.Labels.m[l] # imageConf.Labels.m[l]
          /\ userConf.Labels.m[l] = userArg.Labels.m[l]
    /\ DOMAIN imageConf.Labels.m \ DOMAIN userArg.Labels.m # {}
    /\ userArg.ExposedPorts # {}
    /\ imageConf.ExposedPorts \ userArg.ExposedPorts # {}
    /\ userArg.Volumes # {}
    /\ imageConf.Volumes \ userArg.Volumes # {}

\* C18: without a user Healthcheck the base image's is inherited whole; with
\* one, each of Test, Interval, Timeout and Retries keeps the user's value
\* when that is set and takes the base image's value only when it is unset.
C18_HealthcheckPerField ==
    MergeReturned =>
        LET u == userArg.Healthcheck
            b == imageConf.Healthcheck
            r == userConf.Healthcheck
        IN  IF u.isNil THEN r = b
            ELSE /\ ~r.isNil
                 /\ r.Test = IF Len(u.Test) # 0 \/ b.isNil THEN u.Test ELSE b.Test
                 /\ r.Interval = IF u.Interval # 0 \/ b.isNil THEN u.Interval ELSE b.Interval
                 /\ r.Timeout = IF u.Timeout # 0 \/ b.isNil THEN u.Timeout ELSE b.Timeout
                 /\ r.Retries = IF u.Retries # 0 \/ b.isNil THEN u.Retries ELSE b.Retries

C18_Witness ==
    /\ MergeReturned
    /\ ~userArg.Healthcheck.isNil
    /\ ~imageConf.Healthcheck.isNil
    /\ userArg.Healthcheck.Interval = 0
    /\ imageConf.Healthcheck.Interval # 0
    /\ userConf.Healthcheck.Interval = imageConf.Healthcheck.Interval
    /\ userArg.Healthcheck.Timeout # 0
    /\ imageConf.Healthcheck.Timeout \notin {0, userArg.Healthcheck.Timeout}
    /\ userConf.Healthcheck.Timeout = userArg.Healthcheck.Timeout
    /\ Len(userArg.Healthcheck.Test) # 0
    /\ userArg.Healthcheck.Retries = 0

(* ----------------------- claims about concurrency ---------------------- *)

\* call c has created its temp file and has neither removed nor renamed it
HoldsTmp(c) == pc[c] \in StepsAfterTempFile

\* call c has moved its blob to <destination>/<layerID>/<layerID>.tar
OwnsBlob(c) == "blobfile" \in LogSet(c)

\* call c has drawn its layer ID
HasLayerID(c) == loc[c].layerID # ""

DistinctPaths ==
    \A c, d \in Calls :
        c # d =>
            /\ (HoldsTmp(c) /\ HoldsTmp(d)) =>
                  loc[c].tmpLayerFileName # loc[d].tmpLayerFileName
            /\ (HasLayerID(c) /\ HasLayerID(d)) => loc[c].layerID # loc[d].layerID

\* the step is one of call c
StepOf(c) == pc'[c] # pc[c]

\* the step leaves the temp file and the blob of call d as they are
Untouched(d) ==
    /\ HoldsTmp(d) => tmpFiles'[loc[d].tmpLayerFileName] = tmpFiles[loc[d].tmpLayerFileName]
    /\ OwnsBlob(d) => blobFiles'[loc[d].layerID] = blobFiles[loc[d].layerID]

\* C19: in every interleaving of concurrent Commit calls no two calls hold the
\* same temp file path or have the same layer directory / blob path, and no
\* step of one call removes, renames or overwrites the temp file or the blob
\* of another call.
C19_ExclusivePaths ==
    [][/\ DistinctPaths'
       /\ \A c, d \in Calls : (c # d /\ StepOf(c)) => Untouched(d)]_vars

C19_Witness ==
    \E c, d \in Calls :
        /\ c # d
        /\ loc[c].name = loc[d].name
        /\ OwnsBlob(c)
        /\ blobFiles[loc[c].layerID].exists
        /\ HoldsTmp(d)
        /\ pc[d] = "Rename"
        /\ tmpFiles[loc[d].tmpLayerFileName].exists
        /\ loc[d].tmpLayerFileName # loc[c].tmpLayerFileName

(* ------------------------ claims about portlayer ----------------------- *)

\* the calls of one attempt of operation, in order
OperationOrder == <<"handle", "unbind", "bind", "commit">>

\* Init got as far as TakeCareOfSerialPorts and has returned
InitThrough == initPc = "returned" /\ containers = RunningContainers(containerState) /\ idx # 0

\* the attempts made for one container are well-formed: each runs
\* handle -> unbind -> bind -> commit up to its first failure, and another
\* attempt follows only an unwrapped concurrent-access error
AttemptsInOrder(id) ==
    \A k \in DOMAIN attempts[id] :
        LET a == attempts[id][k]
        IN  /\ Len(a.steps) \in 1 .. Len(OperationOrder)
            /\ a.steps = SubSeq(OperationOrder, 1, Len(a.steps))
            /\ a.err.isNil => a.steps = OperationOrder
            /\ k < Len(attempts[id]) =>
                  /\ ~a.err.isNil /\ ~a.err.wrapped /\ a.err.concurrent
                  /\ a.steps = OperationOrder

\* the failure of a container is logged
FailureLogged(id) ==
    \E n \in DOMAIN portLog : portLog[n] = <<id, "Multiple attempts failed">>

\* C20: TakeCareOfSerialPorts never makes Init fail.  Attempts are made for
\* running containers only, each as handle -> unbind -> bind -> commit, and
\* are repeated only after a concurrent-access error; once Init has come to
\* TakeCareOfSerialPorts it returns nil, every running container has been
\* attempted, and a container whose last attempt failed is in the log.
C20_SerialPortsNeverFailInit ==
    /\ \A id \in ContainerIDs :
          /\ AttemptsInOrder(id)
          /\ containerState[id] # "Running" => attempts[id] = <<>>
    /\ (initPc = "returned" /\ ~initErr.isNil) => idx = 0
    /\ InitThrough =>
          /\ initErr.isNil
          /\ \A id \in ContainerIDs :
                containerState[id] = "Running" =>
                    /\ Len(attempts[id]) >= 1
                    /\ ~attempts[id][Len(attempts[id])].err.isNil => FailureLogged(id)

C20_Witness ==
    /\ InitThrough
    /\ initErr.isNil
    /\ Len(containers) >= 2
    /\ Len(attempts[containers[1]]) >= 2
    /\ ~attempts[containers[1]][Len(attempts[containers[1]])].err.isNil
    /\ FailureLogged(containers[1])
    /\ Len(attempts[containers[2]]) >= 1
    /\ attempts[containers[2]][Len(attempts[containers[2]])].err.isNil

(* -------------------- claims about the cache entries ------------------ *)

\* Commit has returned an error to its caller
ReturnedError(c) == pc[c] = "done" /\ loc[c].err # ""

\* C21: when Commit has returned a failure, the layer it added to the layer
\* cache index is in the durable layer cache or is gone from the index, and
\* so is the image it added to the image cache index.
C21_NoUnsavedEntryAfterFailure ==
    \A c \in Calls :
        ReturnedError(c) =>
            /\ "layerAdd" \in LogSet(c) =>
                  \/ loc[c].layers[1].ID \in layerSaved
                  \/ layerCache[loc[c].layers[1].ID].isNil
            /\ "imageAdd" \in LogSet(c) =>
                  \/ loc[c].ImageID \in imageSaved
                  \/ loc[c].ImageID \notin imageCache

RecordFilledIn(c) == pc[c] \in {"WriteFile", "LayerCacheAdd"}

\* C23: the parent set on the new layer record, which the chain walk starts
\* from, is the layer ID of the layer the container is stacked on, the value
\* written as Parent into the sidecar metadata.
C23_ParentIsLayerID ==
    \A c \in Calls :
        RecordFilledIn(c) =>
            /\ loc[c].lm.Parent = loc[c].vc.LayerID
            /\ loc[c].lm.Parent = loc[c].lm.Meta[1].Parent

\* C24: after a successful materialization the recorded blobSum is the digest
\* of the whole content of the blob file at its final path, the bytes gzip
\* writes on Close included.
C24_BlobSumOfFinalFile ==
    \A c \in Calls :
        ~loc[c].newLayer.isNil =>
            /\ blobFiles[loc[c].layerID].exists
            /\ Len(blobFiles[loc[c].layerID].content) = 1
            /\ blobFiles[loc[c].layerID].content[1].complete
            /\ loc[c].newLayer.BlobSum = SHA256(blobFiles[loc[c].layerID].content[1])

====
